---------------------------- MODULE Spec2Model ----------------------------
(***************************************************************************)
(* Model of src/main.py: the multi-tenant Telegram reservation bot.        *)
(*                                                                         *)
(* Strings the program strips, lower-cases, compares or parses are         *)
(* sequences of characters; a character is a one-character string, and a   *)
(* non-ASCII code point is written by its name ("U+00ED" is i-acute).      *)
(* Python's None is the empty sequence <<>> of an optional value <<v>>.    *)
(* A dict is a function whose DOMAIN is the set of its keys.               *)
(***************************************************************************)
EXTENDS Naturals, Integers, Sequences, FiniteSets

VARIABLES
    SESSIONS,   \* main.py:24   (tenant, chat_id) -> [step, data]
    env,        \* the process environment os.getenv reads (fixed per run)
    vocab,      \* what the clients of this run type besides commands
    script,     \* the inputs one scripted conversation will send, in order
    pos,        \* how many inputs of the script were delivered
    last,       \* <<>> or <<the request handled by the latest step>>
    resp,       \* what the latest request was answered with
    before,     \* <<>> or <<the session stored for the latest request's
                \* key when its handler started>>
    effects,    \* the latest handler's side effects, in program order
    wire,       \* the telegram_api calls of the latest handler and how
                \* each of them ended
    pending,    \* the handlers suspended at "await request.json()"
    base,       \* the store when the oldest of the handlers in progress
                \* was received
    done        \* the requests whose handlers returned since then

vars ==
    <<SESSIONS, env, vocab, script, pos, last, resp, before, effects, wire,
      pending, base, done>>

-----------------------------------------------------------------------------
(* Characters and the str methods the program uses.                        *)

Whitespace == {" ", "\t", "\n"}

UpperLetters ==
    <<"A", "B", "C", "D", "E", "F", "G", "H", "I", "J", "K", "L", "M",
      "N", "O", "P", "Q", "R", "S", "T", "U", "V", "W", "X", "Y", "Z",
      "U+00C1", "U+00C9", "U+00CD", "U+00D3", "U+00DA">>

LowerLetters ==
    <<"a", "b", "c", "d", "e", "f", "g", "h", "i", "j", "k", "l", "m",
      "n", "o", "p", "q", "r", "s", "t", "u", "v", "w", "x", "y", "z",
      "U+00E1", "U+00E9", "U+00ED", "U+00F3", "U+00FA">>

Digits == <<"0", "1", "2", "3", "4", "5", "6", "7", "8", "9">>

SetMin(S) == CHOOSE m \in S : \A n \in S : m <= n

SetMax(S) == CHOOSE m \in S : \A n \in S : n <= m

\* str.strip(): leading and trailing whitespace removed.
Strip(s) ==
    LET keep == {i \in 1..Len(s) : s[i] \notin Whitespace}
    IN  IF keep = {} THEN <<>> ELSE SubSeq(s, SetMin(keep), SetMax(keep))

LowerChar(c) ==
    IF \E i \in 1..Len(UpperLetters) : UpperLetters[i] = c
    THEN LowerLetters[CHOOSE i \in 1..Len(UpperLetters) : UpperLetters[i] = c]
    ELSE c

\* str.lower()
Lower(s) == [i \in 1..Len(s) |-> LowerChar(s[i])]

\* tenant.upper() on the tenant names the two endpoints pass.
Upper(tenant) ==
    CASE tenant = "r1" -> "R1"
      [] tenant = "r2" -> "R2"
      [] OTHER -> tenant

DigitValue(c) == (CHOOSE i \in 1..Len(Digits) : Digits[i] = c) - 1

IsDigit(c) == \E i \in 1..Len(Digits) : Digits[i] = c

RECURSIVE DigitsValue(_)
DigitsValue(s) ==
    IF s = <<>> THEN 0
    ELSE 10 * DigitsValue(SubSeq(s, 1, Len(s) - 1)) + DigitValue(s[Len(s)])

\* Whether int(s) returns: an optional sign and at least one digit, with
\* whitespace around it ignored.
IntParses(s) ==
    LET t == Strip(s)
        body == IF t # <<>> /\ t[1] \in {"+", "-"} THEN Tail(t) ELSE t
    IN  body # <<>> /\ \A i \in 1..Len(body) : IsDigit(body[i])

\* int(s), where it returns.
IntOf(s) ==
    LET t == Strip(s)
    IN  IF t[1] = "-" THEN 0 - DigitsValue(Tail(t))
        ELSE IF t[1] = "+" THEN DigitsValue(Tail(t))
        ELSE DigitsValue(t)

-----------------------------------------------------------------------------
(* main.py:15-20 and the command of main.py:202.                           *)

CMD_START == <<"/", "s", "t", "a", "r", "t">>

BTN_MENU == <<"U+1F4C4", " ", "V", "e", "r", " ", "m", "e", "n", "U+00FA">>

BTN_FAQ ==
    <<"U+2753", " ", "P", "r", "e", "g", "u", "n", "t", "a", "s", " ",
      "f", "r", "e", "c", "u", "e", "n", "t", "e", "s">>

BTN_RESERVAR == <<"U+1F4C5", " ", "R", "e", "s", "e", "r", "v", "a", "r">>

BTN_AGENT ==
    <<"U+1F464", " ", "H", "a", "b", "l", "a", "r", " ", "c", "o", "n", " ",
      "a", "l", "g", "u", "i", "e", "n">>

BTN_CANCEL ==
    <<"U+2716", "U+FE0F", " ", "C", "a", "n", "c", "e", "l", "a", "r">>

Tenants == {"r1", "r2"}

-----------------------------------------------------------------------------
(* Configuration: main.py:29-46.                                           *)

\* os.getenv(name, default)
getenv(name, default) == IF name \in DOMAIN env THEN env[name] ELSE default

get_env(name, tenant, default) ==
    Strip(getenv(name \o "_" \o Upper(tenant), getenv(name, default)))

FAQ_DEFAULT ==
    <<"A", "U+00FA", "n", " ", "n", "o", " ", "s", "e", " ",
      "c", "o", "n", "f", "i", "g", "u", "r", "U+00F3", " ",
      "e", "l", " ", "F", "A", "Q", ".">>

tenant_config(tenant) ==
    LET t == Upper(tenant)
    IN  [tenant         |-> tenant,
         token          |-> get_env("TELEGRAM_BOT_TOKEN", t, <<>>),
         webhook_secret |-> get_env("WEBHOOK_SECRET", t, <<>>),
         menu_pdf_url   |-> get_env("MENU_PDF_URL", t, <<>>),
         faq_text       |-> get_env("FAQ_TEXT", t, FAQ_DEFAULT),
         admin_chat_id  |-> get_env("ADMIN_CHAT_ID", t, <<>>)]

-----------------------------------------------------------------------------
(* Outbound helpers: main.py:61-105.  A keyboard is its rows of button     *)
(* labels; no keyboard is <<>>.  A message text is its format string and   *)
(* the values interpolated into it.                                        *)

main_keyboard == <<<<BTN_MENU, BTN_FAQ>>, <<BTN_RESERVAR, BTN_AGENT>>>>

reservation_keyboard == <<<<BTN_CANCEL>>>>

\* The call send_message(cfg, chat_id, text, keyboard) as one effect.  The
\* call never raises: telegram_api's exceptions end in the except clause.
send_message(cfg, chat_id, text, keyboard) ==
    <<[op |-> "send_message", tenant |-> cfg.tenant, chat_id |-> chat_id,
       text |-> text, reply_markup |-> keyboard]>>

send_document(cfg, chat_id, doc_url, caption) ==
    <<[op |-> "send_document", tenant |-> cfg.tenant, chat_id |-> chat_id,
       document |-> doc_url, caption |-> caption]>>

\* The call notify_admin(cfg, text), followed by the send_message it makes
\* when the admin chat id is set and int() accepts it.
notify_admin(cfg, text) ==
    <<[op |-> "notify_admin", tenant |-> cfg.tenant, text |-> text]>>
    \o (IF Strip(cfg.admin_chat_id) # <<>> /\ IntParses(Strip(cfg.admin_chat_id))
        THEN send_message(cfg, IntOf(Strip(cfg.admin_chat_id)), text, <<>>)
        ELSE <<>>)

-----------------------------------------------------------------------------
(* The session store: main.py:171-181.  Each operator takes the store and  *)
(* returns the store the call leaves.                                      *)

\* A store keyed by the chat id alone.
session_key_shared(tenant, chat_id) == <<"r1", chat_id>>

session_key(tenant, chat_id) == <<tenant, chat_id>>

\* A reset that leaves the entry where it is.
reset_session_none(S, tenant, chat_id) == S

reset_session(S, tenant, chat_id) ==
    [k \in DOMAIN S \ {session_key(tenant, chat_id)} |-> S[k]]

\* SESSIONS.get(key): <<>> for None.
get_session(S, tenant, chat_id) ==
    IF session_key(tenant, chat_id) \in DOMAIN S
    THEN <<S[session_key(tenant, chat_id)]>>
    ELSE <<>>

set_session(S, tenant, chat_id, step, data) ==
    [k \in DOMAIN S \cup {session_key(tenant, chat_id)} |->
        IF k = session_key(tenant, chat_id)
        THEN [step |-> step, data |-> data]
        ELSE S[k]]

\* An assignment that reaches every key of the dict.
DictSet_all(data, field, value) ==
    [f \in DOMAIN data \cup {field} |-> value]

\* data[field] = value
DictSet(data, field, value) ==
    [f \in DOMAIN data \cup {field} |-> IF f = field THEN value ELSE data[f]]

\* The store calls as they appear in a handler's effects.
ResetEffect(tenant, chat_id) ==
    <<[op |-> "reset_session", tenant |-> tenant, chat_id |-> chat_id]>>

SetEffect(tenant, chat_id, step, data) ==
    <<[op |-> "set_session", tenant |-> tenant, chat_id |-> chat_id,
       step |-> step, data |-> data]>>

-----------------------------------------------------------------------------
(* The message texts of handle_update, accents and emoji left out of the   *)
(* format strings.                                                         *)

MsgStart == [tpl |-> "Hola! Soy el bot de reservas.\nElige una opcion:"]

MsgNoPdf == [tpl |-> "Aun no esta configurado el PDF del menu."]

MsgMenuCaption == [tpl |-> "Aqui tienes el menu"]

MsgAlgoMas == [tpl |-> "Deseas algo mas?"]

MsgFaq(faq_text) == [tpl |-> "{faq_text}", faq_text |-> faq_text]

MsgAgent ==
    [tpl |-> "Perfecto. Escribe tu mensaje y te contactara un encargado."]

MsgAgentAdmin(tenant, chat_id) ==
    [tpl |-> "[{tenant}] Un cliente pidio hablar con alguien. ChatID: {chat_id}",
     tenant |-> Upper(tenant), chat_id |-> chat_id]

MsgAskDate == [tpl |-> "Perfecto. Para que fecha? (formato: YYYY-MM-DD)"]

MsgCancelled == [tpl |-> "Reserva cancelada. Que deseas hacer ahora?"]

MsgElige == [tpl |-> "Elige una opcion:"]

MsgAskTime == [tpl |-> "A que hora? (ej: 19:30)"]

MsgAskPeople == [tpl |-> "Para cuantas personas?"]

MsgAskName == [tpl |-> "A nombre de quien?"]

MsgAskPhone == [tpl |-> "Tu numero de telefono?"]

\* main.py:280-288; data[...] of a missing key would raise KeyError.
MsgResumen(data) ==
    [tpl |-> "Confirma tu reserva:\nFecha: {date}\nHora: {time}\nPersonas: {people}\nNombre: {name}\nTel: {phone}\n\nResponde: SI o NO",
     date |-> data["date"], time |-> data["time"], people |-> data["people"],
     name |-> data["name"], phone |-> data["phone"]]

MsgConfirmed == [tpl |-> "Reserva confirmada. Gracias!"]

\* The admin text with the name and the phone in each other's place.
MsgNuevaReserva_swapped(tenant, data) ==
    [tpl |-> "Nueva reserva [{tenant}]\n{date} {time} - {people} pax\nNombre: {name} - Tel: {phone}",
     tenant |-> Upper(tenant),
     date |-> data["date"], time |-> data["time"], people |-> data["people"],
     name |-> data["phone"], phone |-> data["name"]]

\* main.py:299-301
MsgNuevaReserva(tenant, data) ==
    [tpl |-> "Nueva reserva [{tenant}]\n{date} {time} - {people} pax\nNombre: {name} - Tel: {phone}",
     tenant |-> Upper(tenant),
     date |-> data["date"], time |-> data["time"], people |-> data["people"],
     name |-> data["name"], phone |-> data["phone"]]

MsgNotConfirmed ==
    [tpl |-> "Reserva no confirmada. Si deseas, vuelve a empezar."]

-----------------------------------------------------------------------------
(* handle_update: main.py:183-311.  An update is [chat_id, text], each     *)
(* optional: chat_id is <<>> when the message, its chat or the chat's id   *)
(* is missing, text is <<>> when the message has none.                     *)

Outcome(S, fx) == [S |-> S, fx |-> fx]

\* main.py:293
IsAffirmative(text) == Lower(Strip(text)) \in {<<"s", "i">>, <<"s", "U+00ED">>}

\* main.py:253-290: the stage stores the text and moves on.
CollectField(S, tenant, cfg, chat_id, data, field, text, next_step, prompt) ==
    LET d == DictSet(data, field, text)
    IN  Outcome(set_session(S, tenant, chat_id, next_step, d),
                SetEffect(tenant, chat_id, next_step, d)
                \o send_message(cfg, chat_id, prompt, reservation_keyboard))

\* main.py:292-307
ConfirmStage(S, tenant, cfg, chat_id, data, text) ==
    IF IsAffirmative(text)
    THEN Outcome(reset_session(S, tenant, chat_id),
                 send_message(cfg, chat_id, MsgConfirmed, main_keyboard)
                 \o notify_admin(cfg, MsgNuevaReserva(tenant, data))
                 \o ResetEffect(tenant, chat_id))
    ELSE Outcome(reset_session(S, tenant, chat_id),
                 send_message(cfg, chat_id, MsgNotConfirmed, main_keyboard)
                 \o ResetEffect(tenant, chat_id))

\* main.py:244-311: dispatch on the stored session.
StageDispatch(S, tenant, cfg, chat_id, text) ==
    LET s == get_session(S, tenant, chat_id)
    IN  IF s = <<>>
        THEN Outcome(S, send_message(cfg, chat_id, MsgElige, main_keyboard))
        ELSE LET step == s[1].step
                 data == s[1].data
             IN  CASE step = "ASK_DATE" ->
                        CollectField(S, tenant, cfg, chat_id, data, "date",
                                     text, "ASK_TIME", MsgAskTime)
                   [] step = "ASK_TIME" ->
                        CollectField(S, tenant, cfg, chat_id, data, "time",
                                     text, "ASK_PEOPLE", MsgAskPeople)
                   [] step = "ASK_PEOPLE" ->
                        CollectField(S, tenant, cfg, chat_id, data, "people",
                                     text, "ASK_NAME", MsgAskName)
                   [] step = "ASK_NAME" ->
                        CollectField(S, tenant, cfg, chat_id, data, "name",
                                     text, "ASK_PHONE", MsgAskPhone)
                   [] step = "ASK_PHONE" ->
                        CollectField(S, tenant, cfg, chat_id, data, "phone",
                                     text, "CONFIRM",
                                     MsgResumen(DictSet(data, "phone", text)))
                   [] step = "CONFIRM" ->
                        ConfirmStage(S, tenant, cfg, chat_id, data, text)
                   [] OTHER ->
                        Outcome(S, send_message(cfg, chat_id, MsgElige,
                                                main_keyboard))

\* /start answered without touching the store.
StartCommand_keep(S, tenant, cfg, chat_id) ==
    Outcome(S, send_message(cfg, chat_id, MsgStart, main_keyboard))

\* main.py:202-210
StartCommand(S, tenant, cfg, chat_id) ==
    Outcome(reset_session(S, tenant, chat_id),
            ResetEffect(tenant, chat_id)
            \o send_message(cfg, chat_id, MsgStart, main_keyboard))

\* main.py:213-219
MenuButton(S, cfg, chat_id) ==
    IF cfg.menu_pdf_url = <<>>
    THEN Outcome(S, send_message(cfg, chat_id, MsgNoPdf, main_keyboard))
    ELSE Outcome(S, send_document(cfg, chat_id, cfg.menu_pdf_url,
                                  MsgMenuCaption)
                    \o send_message(cfg, chat_id, MsgAlgoMas, main_keyboard))

\* main.py:221-223
FaqButton(S, cfg, chat_id) ==
    Outcome(S, send_message(cfg, chat_id, MsgFaq(cfg.faq_text), main_keyboard))

\* An agent button that also ends the flow in progress.
AgentButton_reset(S, tenant, cfg, chat_id) ==
    Outcome(reset_session(S, tenant, chat_id),
            send_message(cfg, chat_id, MsgAgent, main_keyboard)
            \o notify_admin(cfg, MsgAgentAdmin(tenant, chat_id))
            \o ResetEffect(tenant, chat_id))

\* main.py:225-229
AgentButton(S, tenant, cfg, chat_id) ==
    Outcome(S, send_message(cfg, chat_id, MsgAgent, main_keyboard)
               \o notify_admin(cfg, MsgAgentAdmin(tenant, chat_id)))

\* A reserve button that opens the flow with a date already in place.
ReserveButton_prefilled(S, tenant, cfg, chat_id) ==
    Outcome(set_session(S, tenant, chat_id, "ASK_DATE",
                        DictSet(<<>>, "date", <<>>)),
            SetEffect(tenant, chat_id, "ASK_DATE", DictSet(<<>>, "date", <<>>))
            \o send_message(cfg, chat_id, MsgAskDate, reservation_keyboard))

\* main.py:231-235
ReserveButton(S, tenant, cfg, chat_id) ==
    Outcome(set_session(S, tenant, chat_id, "ASK_DATE", <<>>),
            SetEffect(tenant, chat_id, "ASK_DATE", <<>>)
            \o send_message(cfg, chat_id, MsgAskDate, reservation_keyboard))

\* The cancel button answered without touching the store.
CancelButton_keep(S, tenant, cfg, chat_id) ==
    Outcome(S, send_message(cfg, chat_id, MsgCancelled, main_keyboard))

\* main.py:238-241
CancelButton(S, tenant, cfg, chat_id) ==
    Outcome(reset_session(S, tenant, chat_id),
            ResetEffect(tenant, chat_id)
            \o send_message(cfg, chat_id, MsgCancelled, main_keyboard))

\* A dispatch that tries only the start command and the cancel button
\* before the stored session, and the main-menu buttons after it.
Dispatch_session_first(S, tenant, cfg, chat_id, text) ==
    IF text = CMD_START THEN StartCommand(S, tenant, cfg, chat_id)
    ELSE IF text = BTN_CANCEL THEN CancelButton(S, tenant, cfg, chat_id)
    ELSE IF get_session(S, tenant, chat_id) # <<>>
    THEN StageDispatch(S, tenant, cfg, chat_id, text)
    ELSE IF text = BTN_MENU THEN MenuButton(S, cfg, chat_id)
    ELSE IF text = BTN_FAQ THEN FaqButton(S, cfg, chat_id)
    ELSE IF text = BTN_AGENT THEN AgentButton(S, tenant, cfg, chat_id)
    ELSE IF text = BTN_RESERVAR THEN ReserveButton(S, tenant, cfg, chat_id)
    ELSE StageDispatch(S, tenant, cfg, chat_id, text)

\* main.py:201-311: what the handler does with a chat id and a text.
Dispatch(S, tenant, cfg, chat_id, text) ==
    IF text = CMD_START THEN StartCommand(S, tenant, cfg, chat_id)
    ELSE IF text = BTN_MENU THEN MenuButton(S, cfg, chat_id)
    ELSE IF text = BTN_FAQ THEN FaqButton(S, cfg, chat_id)
    ELSE IF text = BTN_AGENT THEN AgentButton(S, tenant, cfg, chat_id)
    ELSE IF text = BTN_RESERVAR THEN ReserveButton(S, tenant, cfg, chat_id)
    ELSE IF text = BTN_CANCEL THEN CancelButton(S, tenant, cfg, chat_id)
    ELSE StageDispatch(S, tenant, cfg, chat_id, text)

\* A check that lets every header through.
SecretAccepted_any(cfg, secret_header) == TRUE

\* main.py:187-190: whether the request passes the secret check.
SecretAccepted(cfg, secret_header) ==
    LET expected_secret == Strip(cfg.webhook_secret)
    IN  expected_secret # <<>> =>
            /\ secret_header # <<>>
            /\ secret_header[1] # <<>>
            /\ secret_header[1] = expected_secret

\* main.py:193-196
UpdateText(update) == Strip(IF update.text = <<>> THEN <<>> ELSE update.text[1])

\* A test that misses the chat id 0.
NoChatId_absent(update) == update.chat_id = <<>>

\* main.py:198: "not chat_id"
NoChatId(update) == update.chat_id = <<>> \/ update.chat_id[1] = 0

\* main.py:183-311: the store, the effects and the answer a request leaves.
HandleResult(S, tenant, secret_header, update) ==
    LET cfg == tenant_config(tenant)
    IN  IF ~SecretAccepted(cfg, secret_header)
        THEN [S |-> S, fx |-> <<>>, resp |-> "401"]
        ELSE IF NoChatId(update)
        THEN [S |-> S, fx |-> <<>>, resp |-> "ok"]
        ELSE LET r == Dispatch(S, tenant, cfg, update.chat_id[1],
                               UpdateText(update))
             IN  [S |-> r.S, fx |-> r.fx, resp |-> "ok"]

-----------------------------------------------------------------------------
(* The calls on the wire: main.py:44-59 and the except clauses of          *)
(* main.py:82-85, 92-95 and 101-105.  The outbound calls of one handler    *)
(* are numbered in program order; fails is the set of the numbers of those *)
(* whose HTTP request does not come back with a body.                      *)

\* A call that makes its request whether or not there is a token.
telegram_api_unchecked(cfg, method, chat_id, delivered) ==
    [method |-> method, chat_id |-> chat_id, requested |-> TRUE,
     raised |-> IF delivered THEN "none" ELSE "URLError"]

\* main.py:51-59: without a token require_token raises before any request
\* is made; otherwise the request is made, and urlopen or json.loads raise
\* when it is not delivered.
telegram_api(cfg, method, chat_id, delivered) ==
    IF cfg.token = <<>>
    THEN [method |-> method, chat_id |-> chat_id, requested |-> FALSE,
          raised |-> "RuntimeError"]
    ELSE [method |-> method, chat_id |-> chat_id, requested |-> TRUE,
          raised |-> IF delivered THEN "none" ELSE "URLError"]

\* A helper with no except clause: the exception leaves it.
send_except_none(raised) == raised

\* main.py:84 and 94: "except Exception" prints; nothing leaves the helper.
send_except(raised) == "none"

\* main.py:104: "except Exception: pass" around int() and send_message.
notify_except(raised) == "none"

MethodOf(e) == IF e.op = "send_message" THEN "sendMessage" ELSE "sendDocument"

\* The number of the outbound call fx[i] among the handler's outbound calls.
CallNo(fx, i) ==
    Cardinality({j \in 1..i : fx[j].op \in {"send_message", "send_document"}})

\* What telegram_api does for the outbound call fx[i].
ApiResult(cfg, fx, i, fails) ==
    telegram_api(cfg, MethodOf(fx[i]), fx[i].chat_id, CallNo(fx, i) \notin fails)

\* The exception the effect fx[i] lets through to handle_update: a store
\* call raises nothing, send_message inside notify_admin passes two except
\* clauses.
Escaped(cfg, fx, i, fails) ==
    IF fx[i].op \notin {"send_message", "send_document"} THEN "none"
    ELSE IF i > 1 /\ fx[i - 1].op = "notify_admin"
    THEN notify_except(send_except(ApiResult(cfg, fx, i, fails).raised))
    ELSE send_except(ApiResult(cfg, fx, i, fails).raised)

\* The store calls of fx applied to S in order.
RECURSIVE Replay(_, _)
Replay(S, fx) ==
    IF fx = <<>> THEN S
    ELSE LET e == Head(fx)
         IN  Replay(CASE e.op = "set_session" ->
                           set_session(S, e.tenant, e.chat_id, e.step, e.data)
                      [] e.op = "reset_session" ->
                           reset_session(S, e.tenant, e.chat_id)
                      [] OTHER -> S,
                    Tail(fx))

\* The telegram_api calls among fx, with their results; n outbound calls
\* were made before fx.
RECURSIVE WireFrom(_, _, _, _)
WireFrom(cfg, fx, fails, n) ==
    IF fx = <<>> THEN <<>>
    ELSE IF Head(fx).op \in {"send_message", "send_document"}
    THEN <<telegram_api(cfg, MethodOf(Head(fx)), Head(fx).chat_id,
                        (n + 1) \notin fails)>>
         \o WireFrom(cfg, Tail(fx), fails, n + 1)
    ELSE WireFrom(cfg, Tail(fx), fails, n)

WireOf(cfg, fx, fails) == WireFrom(cfg, fx, fails, 0)

\* The handler runs the effects r.fx of its branch in order until an
\* exception leaves one of them, which ends the request with a server
\* error and the store as the calls made so far left it.
Wired(S, cfg, r, fails) ==
    LET raising == {i \in 1..Len(r.fx) : Escaped(cfg, r.fx, i, fails) # "none"}
    IN  IF raising = {}
        THEN [S |-> r.S, fx |-> r.fx, resp |-> r.resp,
              wire |-> WireOf(cfg, r.fx, fails)]
        ELSE LET made == SubSeq(r.fx, 1, SetMin(raising))
             IN  [S |-> Replay(S, made), fx |-> made, resp |-> "500",
                  wire |-> WireOf(cfg, made, fails)]

\* main.py:183-311 with the wire.
Served(S, tenant, secret_header, update, fails) ==
    Wired(S, tenant_config(tenant),
          HandleResult(S, tenant, secret_header, update), fails)

\* Every request comes back with a body.
Delivered == {}

\* A handler that works on the store as it was when the oldest handler in
\* progress was received.
StoreAtReceipt == base

\* main.py:192-311: the one await of handle_update comes before its first
\* use of SESSIONS, and the code after it runs without yielding, so the
\* handler works on the store as it is when the handler resumes.
StoreAtLookup == SESSIONS

handle_update(tenant, secret_header, update, fails) ==
    \E r \in {Served(StoreAtLookup, tenant, secret_header, update, fails)} :
        /\ SESSIONS' = r.S
        /\ effects' = r.fx
        /\ wire' = r.wire
        /\ resp' = r.resp
        /\ before' = IF r.resp = "ok" /\ ~NoChatId(update)
                     THEN get_session(SESSIONS, tenant, update.chat_id[1])
                     ELSE <<>>
        /\ last' = <<[tenant |-> tenant, secret_header |-> secret_header,
                      update |-> update]>>

-----------------------------------------------------------------------------
(* The environment of the model: what the process is configured with and   *)
(* what its clients send.                                                  *)

TxtReservar == <<"r", "e", "s", "e", "r", "v", "a", "r">>

TxtReservarLower ==
    <<"U+1F4C5", " ", "r", "e", "s", "e", "r", "v", "a", "r">>

TxtReservarPadded ==
    <<" ", "U+1F4C5", " ", "R", "e", "s", "e", "r", "v", "a", "r", " ", "\n">>

TxtBad == <<"b", "a", "d">>

TxtDate == <<"2", "0", "2", "6", "-", "0", "1", "-", "1", "0">>

TxtTime == <<"1", "9", ":", "3", "0">>

TxtTimeNoColon == <<"1", "9", "3", "0">>

TxtPeople == <<"4">>

TxtPeopleZero == <<"0">>

TxtName == <<"A", "n", "a">>

TxtNameShort == <<"A">>

TxtPhone == <<"+", "5", "6", "9", "1", "1", "1", "1", "2", "2", "2", "2">>

TxtPhoneShort == <<"1", "2", " ", "3", "4", "5">>

TxtSi == <<"s", "i">>

TxtSiAccent == <<"s", "U+00ED">>

TxtSiUpperPadded == <<" ", "S", "U+00CD", " ">>

TxtOk == <<"o", "k">>

TxtConfirmar == <<"c", "o", "n", "f", "i", "r", "m", "a", "r">>

TxtNo == <<"n", "o">>

TxtCancelar == <<"c", "a", "n", "c", "e", "l", "a", "r">>

TxtTalVez == <<"t", "a", "l", " ", "v", "e", "z">>

TxtHola == <<"h", "o", "l", "a">>

Secret == <<"s", "1">>

WrongSecret == <<"s", "0">>

\* r1 has every setting of its own, r2 has none.
EnvPerTenant ==
    [TELEGRAM_BOT_TOKEN_R1 |-> <<"t", "o", "k">>,
     WEBHOOK_SECRET_R1     |-> <<" ", "s", "1", "\n">>,
     MENU_PDF_URL_R1       |-> <<"u", "r", "l">>,
     FAQ_TEXT_R1           |-> <<"f", "a", "q">>,
     ADMIN_CHAT_ID_R1      |-> <<"4", "2">>]

\* Both tenants fall back to the shared settings; r2 overrides the admin
\* chat with a value int() rejects.
EnvShared ==
    [TELEGRAM_BOT_TOKEN |-> <<"t", "o", "k">>,
     WEBHOOK_SECRET     |-> <<"s", "1">>,
     ADMIN_CHAT_ID      |-> <<" ", "9", "9">>,
     ADMIN_CHAT_ID_R2   |-> <<"a", "b", "c">>]

Environments == {EnvPerTenant, EnvShared}

\* The chat id the clients of the model write from; both tenants see it.
Chat == 42

Commands ==
    {CMD_START, BTN_MENU, BTN_FAQ, BTN_RESERVAR, BTN_AGENT, BTN_CANCEL}

\* What a client may type besides the commands: one text per run, or a
\* message with no text at all.
FreeTexts ==
    {TxtDate, TxtBad, TxtReservar, TxtSiUpperPadded, TxtOk, TxtNo, TxtTalVez}

Vocabularies == {{<<t>>} : t \in FreeTexts} \cup {{<<>>}}

\* The updates a client may post from the chat: a command or what the
\* vocabulary holds.
Updates ==
    {[chat_id |-> <<Chat>>, text |-> t] :
        t \in {<<c>> : c \in Commands} \cup vocab}

\* The requests an endpoint may receive: the updates above under the header
\* Telegram sends, and the reserve button with another header or none, or
\* with no usable chat id.
Requests ==
    {[secret_header |-> <<Secret>>, update |-> u] : u \in Updates}
    \cup {[secret_header |-> h,
           update |-> [chat_id |-> <<Chat>>, text |-> <<BTN_RESERVAR>>]] :
            h \in {<<>>, <<WrongSecret>>}}
    \cup {[secret_header |-> <<Secret>>,
           update |-> [chat_id |-> c, text |-> <<BTN_RESERVAR>>]] :
            c \in {<<>>, <<0>>}}

NoScript == [tenant |-> "r1", secret_header |-> <<>>, texts |-> <<>>]

Init ==
    /\ SESSIONS = <<>>
    /\ env \in Environments
    /\ vocab \in Vocabularies
    /\ script = NoScript
    /\ pos = 0
    /\ last = <<>>
    /\ resp = "none"
    /\ before = <<>>
    /\ effects = <<>>
    /\ wire = <<>>
    /\ pending = {}
    /\ base = <<>>
    /\ done = <<>>

\* main.py:154-159
telegram_webhook_r1 ==
    /\ \E req \in Requests :
           handle_update("r1", req.secret_header, req.update, Delivered)
    /\ UNCHANGED <<env, vocab, script, pos, pending, base, done>>

\* main.py:161-166
telegram_webhook_r2 ==
    /\ \E req \in Requests :
           handle_update("r2", req.secret_header, req.update, Delivered)
    /\ UNCHANGED <<env, vocab, script, pos, pending, base, done>>

Next == telegram_webhook_r1 \/ telegram_webhook_r2

Spec == Init /\ [][Next]_vars

-----------------------------------------------------------------------------
(* One conversation that sends a script: a reserve intent, one text per    *)
(* stage, an answer to the confirmation, and up to MaxFollowUps texts      *)
(* after it.                                                               *)

MaxFollowUps == 1

Intents == {BTN_RESERVAR, TxtReservarPadded, TxtReservar, TxtReservarLower}

Answers ==
    {TxtSi, TxtSiAccent, TxtSiUpperPadded, TxtOk, TxtConfirmar,
     TxtNo, TxtCancelar, TxtTalVez}

FollowUps == {TxtHola, TxtSi, TxtNo}

SeqsUpTo(S, n) == UNION {[1..k -> S] : k \in 0..n}

ScriptTexts ==
    {<<i, d, t, p, n, ph, a>> \o f :
        i \in Intents, d \in {TxtDate, TxtBad, BTN_MENU},
        t \in {TxtTime, TxtTimeNoColon}, p \in {TxtPeople, TxtPeopleZero},
        n \in {TxtName, TxtNameShort}, ph \in {TxtPhone, TxtPhoneShort},
        a \in Answers, f \in SeqsUpTo(FollowUps, MaxFollowUps)}

InitFlow ==
    /\ SESSIONS = <<>>
    /\ env \in Environments
    /\ vocab = {}
    /\ script \in [tenant : Tenants, secret_header : {<<Secret>>},
                   texts : ScriptTexts]
    /\ pos = 0
    /\ last = <<>>
    /\ resp = "none"
    /\ before = <<>>
    /\ effects = <<>>
    /\ wire = <<>>
    /\ pending = {}
    /\ base = <<>>
    /\ done = <<>>

\* The scripted client posts its next text to its tenant's endpoint.
FlowStep ==
    /\ pos < Len(script.texts)
    /\ handle_update(script.tenant, script.secret_header,
                     [chat_id |-> <<Chat>>, text |-> <<script.texts[pos + 1]>>],
                     Delivered)
    /\ pos' = pos + 1
    /\ UNCHANGED <<env, vocab, script, pending, base, done>>

NextFlow == FlowStep

SpecFlow == InitFlow /\ [][NextFlow]_vars

-----------------------------------------------------------------------------
(* The two endpoints with an unreliable wire: each outbound call of a      *)
(* handler may fail, and a tenant may have no token.                       *)

\* No tenant has a token; the other settings are shared.
EnvNoToken ==
    [WEBHOOK_SECRET |-> <<"s", "1">>,
     MENU_PDF_URL   |-> <<"u", "r", "l">>,
     ADMIN_CHAT_ID  |-> <<"9", "9">>]

\* A handler makes at most two outbound calls; any of them may fail.
Failures == SUBSET {1, 2}

InitWire ==
    /\ SESSIONS = <<>>
    /\ env \in {EnvPerTenant, EnvNoToken}
    /\ vocab \in {{<<TxtSiUpperPadded>>}, {<<TxtNo>>}}
    /\ script = NoScript
    /\ pos = 0
    /\ last = <<>>
    /\ resp = "none"
    /\ before = <<>>
    /\ effects = <<>>
    /\ wire = <<>>
    /\ pending = {}
    /\ base = <<>>
    /\ done = <<>>

\* main.py:154-159, the outcome of each outbound call left open.
telegram_webhook_r1_wire ==
    /\ \E req \in Requests, fails \in Failures :
           handle_update("r1", req.secret_header, req.update, fails)
    /\ UNCHANGED <<env, vocab, script, pos, pending, base, done>>

\* main.py:161-166, the outcome of each outbound call left open.
telegram_webhook_r2_wire ==
    /\ \E req \in Requests, fails \in Failures :
           handle_update("r2", req.secret_header, req.update, fails)
    /\ UNCHANGED <<env, vocab, script, pos, pending, base, done>>

NextWire == telegram_webhook_r1_wire \/ telegram_webhook_r2_wire

SpecWire == InitWire /\ [][NextWire]_vars

-----------------------------------------------------------------------------
(* Two handlers of one tenant in progress at once.  handle_update is a     *)
(* coroutine on one event loop: it can be suspended only at its await      *)
(* (main.py:192), after the secret check and before the update is read.    *)

Handlers == {1, 2}

\* What the clients of the concurrent handlers send: the texts that change
\* the store, and two answers.
ConcTexts == {CMD_START, BTN_RESERVAR, BTN_CANCEL, TxtDate, TxtSi}

InitConc ==
    /\ SESSIONS = <<>>
    /\ env = EnvShared
    /\ vocab = {}
    /\ script \in {[NoScript EXCEPT !.tenant = t] : t \in Tenants}
    /\ pos = 0
    /\ last = <<>>
    /\ resp = "none"
    /\ before = <<>>
    /\ effects = <<>>
    /\ wire = <<>>
    /\ pending = {}
    /\ base = <<>>
    /\ done = <<>>

\* The handlers received since the store was last at rest.
InProgress == {h.id : h \in pending} \cup {done[i].id : i \in 1..Len(done)}

\* main.py:183-192: a request arrives; it is rejected, or its handler is
\* suspended until the body is read.
handle_update_receive ==
    \E secret_header \in {<<Secret>>, <<WrongSecret>>}, text \in ConcTexts :
        LET update == [chat_id |-> <<Chat>>, text |-> <<text>>]
            ids == IF pending = {} THEN {} ELSE InProgress
        IN  IF ~SecretAccepted(tenant_config(script.tenant), secret_header)
            THEN /\ handle_update(script.tenant, secret_header, update,
                                  Delivered)
                 /\ UNCHANGED <<env, vocab, script, pos, pending, base, done>>
            ELSE /\ ids # Handlers
                 /\ pending' = pending \cup
                        {[id |-> SetMin(Handlers \ ids),
                          tenant |-> script.tenant,
                          secret_header |-> secret_header,
                          update |-> update]}
                 /\ base' = IF pending = {} THEN SESSIONS ELSE base
                 /\ done' = IF pending = {} THEN <<>> ELSE done
                 /\ UNCHANGED <<SESSIONS, env, vocab, script, pos, last, resp,
                                before, effects, wire>>

\* main.py:192-311: the body of a suspended handler is read and the
\* handler runs to its return.
handle_update_resume ==
    \E h \in pending :
        /\ handle_update(h.tenant, h.secret_header, h.update, Delivered)
        /\ pending' = pending \ {h}
        /\ done' = Append(done, [id |-> h.id, tenant |-> h.tenant,
                                 secret_header |-> h.secret_header,
                                 update |-> h.update,
                                 overlapped |-> Cardinality(pending) > 1])
        /\ UNCHANGED <<env, vocab, script, pos, base>>

NextConc == handle_update_receive \/ handle_update_resume

SpecConc == InitConc /\ [][NextConc]_vars

-----------------------------------------------------------------------------
(* Vocabulary of the properties.                                           *)

\* The latest request reached the dispatch on the text: it passed the
\* secret check and carries a chat id.
Handled == last # <<>> /\ resp = "ok" /\ ~NoChatId(last[1].update)

LastTenant == last[1].tenant

LastChat == last[1].update.chat_id[1]

LastKey == <<LastTenant, LastChat>>

LastText == UpdateText(last[1].update)

Stored(key) == key \in DOMAIN SESSIONS

\* The stage and the fields the latest handler found stored.
InStage(step) == before # <<>> /\ before[1].step = step

\* The texts handle_update answers before it looks at the session.
Intercepted(text) == text \in Commands

\* The outbound calls among the effects: everything but the store calls.
IsSend(e) == e.op \in {"send_message", "send_document"}

\* The send_message calls handle_update makes itself, in order: those
\* notify_admin makes follow a notify_admin effect.
OwnSends(fx) ==
    LET tagged == [i \in 1..Len(fx) |->
                      [e |-> fx[i],
                       own |-> i = 1 \/ fx[i - 1].op # "notify_admin"]]
        kept == SelectSeq(tagged, LAMBDA x : IsSend(x.e) /\ x.own)
    IN  [i \in 1..Len(kept) |-> kept[i].e]

Notifications(fx) == SelectSeq(fx, LAMBDA e : e.op = "notify_admin")

Fields == <<"date", "time", "people", "name", "phone">>

Steps == <<"ASK_DATE", "ASK_TIME", "ASK_PEOPLE", "ASK_NAME", "ASK_PHONE">>

StepAfter(i) == IF i = 5 THEN "CONFIRM" ELSE Steps[i + 1]

-----------------------------------------------------------------------------
(* C1: tenant isolation.  Handling a request of one tenant leaves the      *)
(* session of every other tenant as it was, stored or not, also under the  *)
(* same chat id, and every store call and outbound call of the handler is  *)
(* made for the tenant of the request.                                     *)
C1_TenantIsolation ==
    [][\A t \in Tenants, c \in {0, Chat} :
          (last' # <<>> /\ last'[1].tenant # t) =>
              /\ <<t, c>> \in DOMAIN SESSIONS' <=> <<t, c>> \in DOMAIN SESSIONS
              /\ <<t, c>> \in DOMAIN SESSIONS =>
                     SESSIONS'[<<t, c>>] = SESSIONS[<<t, c>>]
              /\ \A i \in 1..Len(effects') :
                     effects'[i].tenant = last'[1].tenant]_vars

\* Both tenants hold a session for the same chat id, at different stages,
\* and the latest request was r2's and was handled.
C1_Witness ==
    /\ Handled
    /\ LastTenant = "r2"
    /\ before # <<>>
    /\ Stored(<<"r1", Chat>>)
    /\ Stored(<<"r2", Chat>>)
    /\ SESSIONS[<<"r1", Chat>>] # SESSIONS[<<"r2", Chat>>]

-----------------------------------------------------------------------------
(* The validation rules the specification gives for the five stages, in    *)
(* the order of Steps: a date of at least 8 characters, a time with a ':', *)
(* a positive integer, a name of at least 2 characters once trimmed, a     *)
(* phone of at least 6 characters once its whitespace is removed.          *)

ValidFor(i, text) ==
    CASE i = 1 -> Len(text) >= 8
      [] i = 2 -> \E k \in 1..Len(text) : text[k] = ":"
      [] i = 3 -> IntParses(text) /\ IntOf(text) > 0
      [] i = 4 -> Len(Strip(text)) >= 2
      [] i = 5 -> Len(SelectSeq(text, LAMBDA c : c \notin Whitespace)) >= 6

\* The stored session is the one the handler found, and the handler sent
\* the client exactly one message.
RepromptedUnchanged ==
    /\ Stored(LastKey)
    /\ SESSIONS[LastKey] = before[1]
    /\ Len(OwnSends(effects)) = 1

\* Stage i stored the text under its field and moved one step on, and the
\* fields collected before are as they were.
AdvancedFrom(i) ==
    /\ Stored(LastKey)
    /\ SESSIONS[LastKey].step = StepAfter(i)
    /\ DOMAIN SESSIONS[LastKey].data = DOMAIN before[1].data \cup {Fields[i]}
    /\ SESSIONS[LastKey].data[Fields[i]] = LastText
    /\ \A f \in DOMAIN before[1].data \ {Fields[i]} :
           SESSIONS[LastKey].data[f] = before[1].data[f]

(* C2: in each of the five reservation stages, an input that fails the     *)
(* stage's validation rule leaves the stored session (stage and fields) as *)
(* it was and is answered with exactly one re-prompt message.              *)
C2_InvalidInputReprompts ==
    \A i \in 1..5 :
        (Handled /\ InStage(Steps[i]) /\ ~Intercepted(LastText)
         /\ ~ValidFor(i, LastText)) => RepromptedUnchanged

(* C3 as stated: in each of the five reservation stages, an input that     *)
(* passes the stage's validation rule moves the stage one step on, is      *)
(* stored under the stage's field, and leaves the earlier fields alone.    *)
C3_ValidInputAdvances_Original ==
    \A i \in 1..5 :
        (Handled /\ InStage(Steps[i]) /\ ValidFor(i, LastText))
            => AdvancedFrom(i)

(* C3, amended: the same, for an input that is not one of the texts the    *)
(* handler answers before it looks at the session (the start command, the  *)
(* four main-menu button labels and the cancel button label).              *)
C3_ValidInputAdvances ==
    \A i \in 1..5 :
        (Handled /\ InStage(Steps[i]) /\ ValidFor(i, LastText)
         /\ ~Intercepted(LastText)) => AdvancedFrom(i)

\* A valid phone was stored as the fifth of five different values.
C3_Witness ==
    /\ Handled
    /\ InStage("ASK_PHONE")
    /\ ValidFor(5, LastText)
    /\ ~Intercepted(LastText)
    /\ Stored(LastKey)
    /\ SESSIONS[LastKey].step = "CONFIRM"
    /\ Cardinality({SESSIONS[LastKey].data[f] : f \in DOMAIN SESSIONS[LastKey].data}) = 5

-----------------------------------------------------------------------------
\* The one message a handler sent its client, as send_message records it.
SentOnly(msg, keyboard) ==
    OwnSends(effects) =
        send_message(tenant_config(LastTenant), LastChat, msg, keyboard)

(* C4: the cancel button, in any stage, leaves no session stored for the   *)
(* conversation and is answered with the cancellation message carrying the *)
(* main menu; the next input of that conversation is read as a top-level   *)
(* choice: it stores no field, it starts a flow only if it is the reserve  *)
(* button, and any text that is no command is answered with the menu.      *)
C4_CancelClearsSession ==
    [][/\ (Handled /\ LastText = BTN_CANCEL)' =>
              (/\ ~Stored(LastKey)
               /\ SentOnly(MsgCancelled, main_keyboard)
               /\ Notifications(effects) = <<>>)'
       /\ (Handled /\ LastText = BTN_CANCEL /\ Handled' /\ LastKey' = LastKey) =>
              (/\ IF LastText = BTN_RESERVAR
                  THEN Stored(LastKey)
                       /\ SESSIONS[LastKey] = [step |-> "ASK_DATE", data |-> <<>>]
                  ELSE ~Stored(LastKey)
               /\ ~Intercepted(LastText) => SentOnly(MsgElige, main_keyboard))'
      ]_vars

\* The cancel button ended a conversation that had reached the confirmation.
C4_Witness ==
    /\ Handled
    /\ LastText = BTN_CANCEL
    /\ InStage("CONFIRM")
    /\ ~Stored(LastKey)

(* C5 as stated: the start command, in any stage, leaves no session stored *)
(* for the conversation and is answered with exactly two messages.         *)
C5_StartTwoMessages_Original ==
    (Handled /\ LastText = CMD_START) =>
        (~Stored(LastKey) /\ Len(OwnSends(effects)) = 2)

(* C5, amended: the start command, in any stage, leaves no session stored  *)
(* for the conversation and is answered with exactly one message, the      *)
(* greeting, which carries the main menu as its keyboard; a start command  *)
(* repeated for the same conversation leaves the same store and the same   *)
(* effects.                                                                *)
C5_StartResets ==
    [][/\ (Handled /\ LastText = CMD_START)' =>
              (/\ ~Stored(LastKey)
               /\ SentOnly(MsgStart, main_keyboard)
               /\ Notifications(effects) = <<>>)'
       /\ (/\ Handled /\ LastText = CMD_START
           /\ (Handled /\ LastText = CMD_START)' /\ LastKey' = LastKey) =>
              (SESSIONS' = SESSIONS /\ effects' = effects)
      ]_vars

\* The start command ended a conversation that was mid-flow.
C5_Witness ==
    /\ Handled
    /\ LastText = CMD_START
    /\ before # <<>>
    /\ ~Stored(LastKey)

-----------------------------------------------------------------------------
(* The tokens of the specification, compared after trimming and            *)
(* lower-casing.                                                           *)

Normal(text) == Lower(Strip(text))

SaysYes(text) == Normal(text) \in {TxtSi, TxtSiAccent}

SpecAffirmative(text) ==
    Normal(text) \in {TxtSi, TxtSiAccent, TxtOk, TxtConfirmar}

SpecNegative(text) == Normal(text) \in {TxtNo, TxtCancelar}

SpecReserveIntent(text) == Normal(text) \in {Lower(BTN_RESERVAR), TxtReservar}

\* The notify_admin call of the effects carries the five fields of data.
NotifiedOnceWith(data) ==
    /\ Len(Notifications(effects)) = 1
    /\ \A i \in 1..5 :
           Notifications(effects)[1].text[Fields[i]] = data[Fields[i]]

(* C6: in the confirmation stage, an input the handler takes as            *)
(* affirmative (si or its accented form, whatever the case and the         *)
(* padding) deletes the session, sends the client the one success message  *)
(* and calls notify_admin exactly once, with a text that carries the five  *)
(* collected fields; the conversation has no session afterwards.           *)
C6_ConfirmNotifiesAdmin ==
    (Handled /\ InStage("CONFIRM") /\ SaysYes(LastText)) =>
        /\ ~Stored(LastKey)
        /\ SentOnly(MsgConfirmed, main_keyboard)
        /\ DOMAIN before[1].data = {Fields[i] : i \in 1..5}
        /\ NotifiedOnceWith(before[1].data)

\* A reservation of five different values was confirmed and the admin's
\* chat received the notification.
C6_Witness ==
    /\ Handled
    /\ InStage("CONFIRM")
    /\ SaysYes(LastText)
    /\ Cardinality({before[1].data[f] : f \in DOMAIN before[1].data}) = 5
    /\ ~Stored(LastKey)
    /\ Len(effects) = 4
    /\ effects[3].op = "send_message"
    /\ effects[3].chat_id = 99

\* The conversation of the script.
FlowKey == <<script.tenant, Chat>>

(* C7: from a conversation with no session, a reserve intent (the button   *)
(* label or the keyword), one valid input per stage and an affirmative     *)
(* answer (si, its accented form, ok, confirmar) end with no session       *)
(* stored and with a notify_admin call whose text carries exactly the five *)
(* values supplied, each under the field of its stage.                     *)
C7_EndToEndReservation ==
    (/\ pos = 7
     /\ SpecReserveIntent(script.texts[1])
     /\ \A i \in 1..5 : /\ ValidFor(i, script.texts[i + 1])
                        /\ ~Intercepted(script.texts[i + 1])
     /\ SpecAffirmative(script.texts[7])) =>
        /\ ~Stored(FlowKey)
        /\ NotifiedOnceWith([f \in {Fields[i] : i \in 1..5} |->
               script.texts[1 + CHOOSE i \in 1..5 : Fields[i] = f]])

(* C8: with no session stored, the reserve intent, which is the button     *)
(* label or the keyword, in any case and with any padding, creates a       *)
(* session in the first stage with no field and is answered with the date  *)
(* prompt.                                                                 *)
C8_ReserveIntentStartsFlow ==
    (Handled /\ before = <<>> /\ SpecReserveIntent(LastText)) =>
        /\ Stored(LastKey)
        /\ SESSIONS[LastKey] = [step |-> "ASK_DATE", data |-> <<>>]
        /\ SentOnly(MsgAskDate, reservation_keyboard)

(* C9: in the confirmation stage, an input that is neither an affirmative  *)
(* nor a negative token is answered with a re-prompt and leaves the        *)
(* session stored, in the confirmation stage, with its fields unchanged.   *)
C9_OtherAnswerReprompts ==
    (/\ Handled /\ InStage("CONFIRM") /\ ~Intercepted(LastText)
     /\ ~SpecAffirmative(LastText) /\ ~SpecNegative(LastText)) =>
        RepromptedUnchanged

(* C10: in the confirmation stage each of si, its accented form, ok and    *)
(* confirmar leads to the confirmed outcome with notify_admin, and the     *)
(* cancelled outcome is reached only by no and cancelar.                   *)
C10_ConfirmTokens ==
    (Handled /\ InStage("CONFIRM") /\ ~Intercepted(LastText)) =>
        /\ SpecAffirmative(LastText) =>
               (/\ SentOnly(MsgConfirmed, main_keyboard)
                /\ Len(Notifications(effects)) = 1)
        /\ (SentOnly(MsgNotConfirmed, main_keyboard)
            /\ Notifications(effects) = <<>>) => SpecNegative(LastText)

-----------------------------------------------------------------------------
\* The secret the tenant of the request in progress is configured with.
ExpectedSecret(tenant) == Strip(tenant_config(tenant).webhook_secret)

\* The header of the request is absent, empty or not the tenant's secret.
BadHeader(req) ==
    \/ req.secret_header = <<>>
    \/ req.secret_header[1] # ExpectedSecret(req.tenant)

(* C11: when the tenant of a request has a webhook secret configured and   *)
(* the request's secret header is absent or differs from it, the request   *)
(* is rejected: the session store is the same for every key, the handler   *)
(* makes no store call, no outbound call and no notification, and nothing  *)
(* goes on the wire.                                                       *)
C11_SecretMismatchRejected ==
    [][(/\ last' # <<>>
        /\ ExpectedSecret(last'[1].tenant) # <<>>
        /\ BadHeader(last'[1])) =>
           (/\ SESSIONS' = SESSIONS
            /\ effects' = <<>>
            /\ wire' = <<>>
            /\ resp' = "401")]_vars

\* A request with a wrong header was rejected while the
\* conversation it names had reached the confirmation.
C11_Witness ==
    /\ last # <<>>
    /\ last[1].tenant = "r1"
    /\ last[1].secret_header = <<WrongSecret>>
    /\ resp = "401"
    /\ Stored(<<"r1", Chat>>)
    /\ SESSIONS[<<"r1", Chat>>].step = "CONFIRM"

-----------------------------------------------------------------------------
\* The request handled by the step, with every outbound call delivered.
AllDelivered(S, req) ==
    Served(S, req.tenant, req.secret_header, req.update, Delivered)

(* C12: whichever of a handler's outbound calls (send_message,             *)
(* send_document, the send of notify_admin) fail, the store the request    *)
(* leaves, the answer it is given and the calls the handler makes are      *)
(* those of the same request with every call delivered.                    *)
C12_DeliveryFailureIgnored ==
    [][last' # <<>> =>
           \E r \in {AllDelivered(SESSIONS, last'[1])} :
               /\ SESSIONS' = r.S
               /\ resp' = r.resp
               /\ effects' = r.fx]_vars

\* A reservation was confirmed while the message to the client and the
\* message to the admin both failed on the wire.
C12_Witness ==
    /\ Handled
    /\ InStage("CONFIRM")
    /\ SaysYes(LastText)
    /\ ~Stored(LastKey)
    /\ Len(wire) = 2
    /\ wire[1].raised = "URLError"
    /\ wire[2].raised = "URLError"
    /\ wire[2].chat_id = 42

-----------------------------------------------------------------------------
\* The configuration a tenant would have with a token set.
WithToken(cfg) == [cfg EXCEPT !.token = <<"t", "o", "k">>]

NoToken(tenant) == tenant_config(tenant).token = <<>>

(* C13: when the tenant of a request has no token, none of the handler's   *)
(* outbound calls makes a request (each ends in require_token), no         *)
(* exception reaches the caller, so a request that passes the secret check *)
(* is answered ok, and the store the request leaves is the one the same    *)
(* request leaves when the tenant has a token.                             *)
C13_MissingTokenDropsCalls ==
    [][(last' # <<>> /\ NoToken(last'[1].tenant)) =>
           /\ \A n \in 1..Len(wire') :
                  ~wire'[n].requested /\ wire'[n].raised = "RuntimeError"
           /\ resp' = IF SecretAccepted(tenant_config(last'[1].tenant),
                                        last'[1].secret_header)
                      THEN "ok" ELSE "401"
           /\ Handled' =>
                  /\ Len(wire') >= 1
                  /\ SESSIONS' =
                         Dispatch(SESSIONS, LastTenant',
                                  WithToken(tenant_config(LastTenant')),
                                  LastChat', LastText').S]_vars

\* A tenant with no token confirmed a reservation: the message to the
\* client and the message to the admin were both dropped.
C13_Witness ==
    /\ Handled
    /\ NoToken(LastTenant)
    /\ InStage("CONFIRM")
    /\ SaysYes(LastText)
    /\ ~Stored(LastKey)
    /\ Len(wire) = 2
    /\ ~wire[1].requested
    /\ ~wire[2].requested

-----------------------------------------------------------------------------
\* The store that handling the requests reqs one after the other, each to
\* its return, leaves from the store S.
RECURSIVE SerialStore(_, _)
SerialStore(S, reqs) ==
    IF reqs = <<>> THEN S
    ELSE SerialStore(Served(S, Head(reqs).tenant, Head(reqs).secret_header,
                            Head(reqs).update, Delivered).S,
                     Tail(reqs))

(* C14: when two handlers for the same tenant and conversation are in      *)
(* progress at once, the store they leave is the store that handling the   *)
(* two requests one after the other, in one of the two orders, leaves from *)
(* the store the first of them found: no stage is advanced twice by one    *)
(* input and no field is lost or written from a stale copy.                *)
C14_SerialOutcome ==
    /\ Len(done) = 1 => SESSIONS = SerialStore(base, done)
    /\ Len(done) = 2 =>
           SESSIONS \in {SerialStore(base, done),
                         SerialStore(base, <<done[2], done[1]>>)}

\* Two handlers were suspended together while the conversation was at the
\* date; the one received last resumed first, and each input was stored
\* under the stage it met.
C14_Witness ==
    /\ pending = {}
    /\ Len(done) = 2
    /\ done[1].overlapped
    /\ done[1].id = 2
    /\ <<script.tenant, Chat>> \in DOMAIN base
    /\ base[<<script.tenant, Chat>>].step = "ASK_DATE"
    /\ done[1].update.text = <<TxtSi>>
    /\ done[2].update.text = <<TxtDate>>
    /\ SESSIONS[<<script.tenant, Chat>>] =
           [step |-> "ASK_PEOPLE",
            data |-> DictSet(DictSet(<<>>, "date", TxtSi), "time", TxtDate)]

-----------------------------------------------------------------------------
\* The store the latest handler found: the store it left, with the entry
\* of its own key as it was.
PriorStore ==
    IF before = <<>>
    THEN reset_session(SESSIONS, LastTenant, LastChat)
    ELSE set_session(SESSIONS, LastTenant, LastChat,
                     before[1].step, before[1].data)

\* The latest handler left the entry of its key as it found it.
EntryKept == get_session(SESSIONS, LastTenant, LastChat) = before

\* The latest request was answered by the stage of the session it found.
HandledByStage ==
    \E r \in {StageDispatch(PriorStore, LastTenant, tenant_config(LastTenant),
                            LastChat, LastText)} :
        SESSIONS = r.S /\ effects = r.fx

(* C15 as stated: only the start command and the cancel command come       *)
(* before the stage dispatch; with a session stored, every other input,    *)
(* the four main-menu choices included, is handled by the stage of that    *)
(* session.                                                                *)
C15_OnlyStartAndCancelFirst_Original ==
    (Handled /\ before # <<>> /\ LastText \notin {CMD_START, BTN_CANCEL})
        => HandledByStage

(* C15, amended: the start command, the four main-menu button labels and   *)
(* the cancel button label are all answered before the stage dispatch,     *)
(* whether or not a session is stored: show menu, FAQ and talk to agent    *)
(* leave the session as it is, reserve replaces it with a fresh session at *)
(* the date, start and cancel delete it.  Only an input that is none of    *)
(* the six is handled by the stage of the stored session, and with no      *)
(* session it is answered with the main menu.                              *)
C15_InterceptPrecedence ==
    Handled =>
        /\ LastText = CMD_START =>
               ~Stored(LastKey) /\ SentOnly(MsgStart, main_keyboard)
        /\ LastText = BTN_MENU =>
               /\ EntryKept
               /\ OwnSends(effects)[Len(OwnSends(effects))].text
                      \in {MsgNoPdf, MsgAlgoMas}
        /\ LastText = BTN_FAQ =>
               /\ EntryKept
               /\ SentOnly(MsgFaq(tenant_config(LastTenant).faq_text),
                           main_keyboard)
        /\ LastText = BTN_AGENT =>
               EntryKept /\ SentOnly(MsgAgent, main_keyboard)
        /\ LastText = BTN_RESERVAR =>
               /\ get_session(SESSIONS, LastTenant, LastChat) =
                      <<[step |-> "ASK_DATE", data |-> <<>>]>>
               /\ SentOnly(MsgAskDate, reservation_keyboard)
        /\ LastText = BTN_CANCEL =>
               ~Stored(LastKey) /\ SentOnly(MsgCancelled, main_keyboard)
        /\ (~Intercepted(LastText) /\ before # <<>>) =>
               HandledByStage /\ ~EntryKept
        /\ (~Intercepted(LastText) /\ before = <<>>) =>
               ~Stored(LastKey) /\ SentOnly(MsgElige, main_keyboard)

\* The reserve button, sent while the conversation was at the confirmation
\* with five fields collected, started the flow again with no field.
C15_Witness ==
    /\ Handled
    /\ InStage("CONFIRM")
    /\ LastText = BTN_RESERVAR
    /\ Stored(LastKey)
    /\ SESSIONS[LastKey] = [step |-> "ASK_DATE", data |-> <<>>]

-----------------------------------------------------------------------------
IsStoreCall(e) == e.op \in {"set_session", "reset_session"}

(* C16: in every request that changes the session store (create, advance,  *)
(* delete), the store call comes before the first outbound call of the     *)
(* handler: no send_message, send_document or notify_admin precedes a      *)
(* set_session or reset_session among the handler's effects.               *)
C16_CommitBeforeDispatch ==
    Handled =>
        \A i \in 1..Len(effects), j \in 1..Len(effects) :
            (IsStoreCall(effects[i]) /\ ~IsStoreCall(effects[j])) => i < j

-----------------------------------------------------------------------------
Stages == {Steps[i] : i \in 1..5} \cup {"CONFIRM"}

(* C17: every stored session is at one of the six stages of the flow, and  *)
(* a conversation has no session stored once its handler has answered the  *)
(* start command, the cancel button, or an answer given at the             *)
(* confirmation (the completion and the cancellation alike).               *)
C17_SessionIffMidFlow ==
    /\ \A k \in DOMAIN SESSIONS : SESSIONS[k].step \in Stages
    /\ (/\ Handled
        /\ \/ LastText \in {CMD_START, BTN_CANCEL}
           \/ InStage("CONFIRM") /\ ~Intercepted(LastText)) =>
           ~Stored(LastKey)

\* An answer other than yes ended r1's conversation at the confirmation
\* while r2's conversation with the same chat id stayed mid-flow.
C17_Witness ==
    /\ Handled
    /\ LastTenant = "r1"
    /\ InStage("CONFIRM")
    /\ ~Intercepted(LastText)
    /\ ~SaysYes(LastText)
    /\ ~Stored(LastKey)
    /\ Stored(<<"r2", Chat>>)
    /\ SESSIONS[<<"r2", Chat>>].step = "ASK_PHONE"

-----------------------------------------------------------------------------
\* The place of a stage in the flow: 1 for ASK_DATE up to 6 for CONFIRM.
StageNo(step) ==
    IF step = "CONFIRM" THEN 6 ELSE CHOOSE i \in 1..5 : Steps[i] = step

\* The fields of the stages before a stage.
FieldsBefore(step) == {Fields[j] : j \in 1..(StageNo(step) - 1)}

(* C18: the data of every stored session holds exactly the fields of the   *)
(* stages before its stage: none at ASK_DATE, date at ASK_TIME, and so on  *)
(* up to all five at CONFIRM, so the summary and the admin text find every *)
(* field they read.                                                        *)
C18_FieldsMatchStage ==
    \A k \in DOMAIN SESSIONS :
        /\ SESSIONS[k].step \in Stages
        /\ DOMAIN SESSIONS[k].data = FieldsBefore(SESSIONS[k].step)

\* One tenant's conversation is at the confirmation with its five fields
\* while the other's has just started.
C18_Witness ==
    /\ Stored(<<"r1", Chat>>)
    /\ SESSIONS[<<"r1", Chat>>].step = "CONFIRM"
    /\ Cardinality(DOMAIN SESSIONS[<<"r1", Chat>>].data) = 5
    /\ Stored(<<"r2", Chat>>)
    /\ SESSIONS[<<"r2", Chat>>] = [step |-> "ASK_DATE", data |-> <<>>]

-----------------------------------------------------------------------------
(* C19: the show-menu, FAQ and talk-to-agent buttons, at any stage of the  *)
(* conversation and with no session alike, leave the whole session store   *)
(* as it was: the handler makes no store call, and every effect it has is  *)
(* an outbound call or the admin notification.                             *)
C19_MenuChoicesKeepStore ==
    [][(Handled /\ LastText \in {BTN_MENU, BTN_FAQ, BTN_AGENT})' =>
           /\ SESSIONS' = SESSIONS
           /\ \A i \in 1..Len(effects') : ~IsStoreCall(effects'[i])
           /\ Len(OwnSends(effects')) >= 1]_vars

\* The agent button was answered mid-reservation: the admin was notified
\* and the conversation is still at the stage it was at.
C19_Witness ==
    /\ Handled
    /\ LastText = BTN_AGENT
    /\ InStage("ASK_PEOPLE")
    /\ Stored(LastKey)
    /\ SESSIONS[LastKey] = before[1]
    /\ Len(Notifications(effects)) = 1
    /\ Len(wire) = 2

-----------------------------------------------------------------------------
\* The request passed the secret check of its tenant.
PassedSecret(req) ==
    SecretAccepted(tenant_config(req.tenant), req.secret_header)

\* The update names no conversation: no message, no chat, no id, or id 0.
NoConversation(req) ==
    req.update.chat_id = <<>> \/ req.update.chat_id = <<0>>

(* C20: a request that passes the secret check and names no conversation   *)
(* (no message, no chat, no id, or the id 0) is answered ok with the store *)
(* as it was and with no effect at all; every request that passes the      *)
(* secret check and names a conversation is answered ok after at least one *)
(* send_message call of the handler itself addressed to that conversation, *)
(* whatever the stage and the text.                                        *)
C20_ReplyOnlyToConversation ==
    [][(last' # <<>> /\ PassedSecret(last'[1])) =>
           IF NoConversation(last'[1])
           THEN /\ resp' = "ok"
                /\ SESSIONS' = SESSIONS
                /\ effects' = <<>>
                /\ wire' = <<>>
           ELSE /\ resp' = "ok"
                /\ \E i \in 1..Len(OwnSends(effects')) :
                       /\ OwnSends(effects')[i].op = "send_message"
                       /\ OwnSends(effects')[i].chat_id =
                              last'[1].update.chat_id[1]
                /\ \E n \in 1..Len(wire') :
                       /\ wire'[n].method = "sendMessage"
                       /\ wire'[n].chat_id = last'[1].update.chat_id[1]]_vars

\* An update with the chat id 0 was answered ok and changed nothing while
\* a conversation of the same tenant was mid-flow.
C20_Witness ==
    /\ last # <<>>
    /\ PassedSecret(last[1])
    /\ last[1].update.chat_id = <<0>>
    /\ resp = "ok"
    /\ effects = <<>>
    /\ Stored(<<last[1].tenant, Chat>>)
    /\ SESSIONS[<<last[1].tenant, Chat>>].step = "ASK_TIME"

=============================================================================
